---- MODULE Spec2Model ----
(***************************************************************************)
(* Model of the ESLint rule "require-justification" of                     *)
(* eslint-plugin-nextpublic (lib/rules/require-justification.js): the      *)
(* loader of the .nextpublicrc sidecar file, its two parsers, the four AST *)
(* visitors and checkJustification.                                        *)
(*                                                                         *)
(* Texts are sequences of one-character strings, so that split, trim, the  *)
(* regular expressions and .length are computed as the code computes them. *)
(***************************************************************************)
EXTENDS Integers, Sequences, FiniteSets, TLC

VARIABLES
    disk,            \* the file system: path -> file state
    pc,              \* "idle" | "visiting" | "crashed" | "exited"
    cwd,             \* context.getCwd() of the current file visit
    rcPath,          \* options.rcPath of the current file visit
    justifications,  \* the store create() loaded (closure variable)
    loaded,          \* which branch of readJustificationsFile produced it
    foundVariables,  \* the per-file Set (closure variable)
    ast,             \* the nodes of the file being linted, in traversal order
    pos,             \* index of the next node the host hands to a visitor
    reports,         \* context.report() calls of the current file visit
    thrown,          \* the exception that escaped create() or a visitor
    console,         \* console.log lines since the last create() began
    globalState,     \* global.eslintPluginNextPublic
    exitListeners,   \* number of process.on('exit') registrations
    input,           \* parser harness: the file content under test
    output,          \* parser harness: what parsing the content returned
    history,         \* the file visits that reached the end of Program:exit
    harness          \* "none" | "jest" | "done": the test file's setup

vars == <<disk, pc, cwd, rcPath, justifications, loaded, foundVariables, ast,
          pos, reports, thrown, console, globalState, exitListeners, input,
          output, history, harness>>

-----------------------------------------------------------------------------
(* Bounds *)

\* directories are /, /d, /d/d, ... down to this depth
MaxDepth == 2
\* at most this many files exist on the modelled disk at once
MaxFiles == 2
\* longest text the parser harness enumerates exhaustively
MaxTextLen == 5
\* file visits recorded in history
MaxRuns == 2

-----------------------------------------------------------------------------
(* Texts *)

\* "NEXT_PUBLIC_"
NP == <<"N", "E", "X", "T", "_", "P", "U", "B", "L", "I", "C", "_">>

\* the character class [A-Z0-9_]
NameChars ==
    {"A", "B", "C", "D", "E", "F", "G", "H", "I", "J", "K", "L", "M", "N", "O",
     "P", "Q", "R", "S", "T", "U", "V", "W", "X", "Y", "Z", "0", "1", "2", "3",
     "4", "5", "6", "7", "8", "9", "_"}

\* String.prototype.trim recognises these (of the characters modelled)
WhiteSpace == {" ", "\n"}

\* a text of n characters
Filler(n) == [i \in 1..n |-> "x"]

\* String.prototype.startsWith
StartsWith(text, prefix) ==
    /\ Len(text) >= Len(prefix)
    /\ SubSeq(text, 1, Len(prefix)) = prefix

\* String.prototype.includes
Includes(text, part) ==
    \E i \in 1..(Len(text) - Len(part) + 1) :
        SubSeq(text, i, i + Len(part) - 1) = part

\* indices of the characters of a text that trim keeps
NonSpace(text) == {i \in 1..Len(text) : text[i] \notin WhiteSpace}

\* least and greatest member of a non-empty set of indices
Least(S) == CHOOSE i \in S : \A j \in S : i <= j
Greatest(S) == CHOOSE i \in S : \A j \in S : j <= i

\* String.prototype.trimStart
TrimStart(text) ==
    IF NonSpace(text) = {} THEN <<>>
    ELSE SubSeq(text, Least(NonSpace(text)), Len(text))

\* String.prototype.trimEnd
TrimEnd(text) ==
    IF NonSpace(text) = {} THEN <<>>
    ELSE SubSeq(text, 1, Greatest(NonSpace(text)))

\* String.prototype.trim
Trim(text) == TrimEnd(TrimStart(text))

\* String.prototype.split("\n") of line followed by text: the lines, without
\* the separators (the k-th line lies between the (k-1)-th and k-th "\n")
Split(text, line) ==
    LET whole    == line \o text
        seps     == {i \in 1..Len(whole) : whole[i] = "\n"}
        SepAt(k) == IF k = 0 THEN 0
                    ELSE IF k > Cardinality(seps) THEN Len(whole) + 1
                    ELSE CHOOSE i \in seps :
                            Cardinality({j \in seps : j < i}) = k - 1
    IN  [k \in 1..(Cardinality(seps) + 1) |->
            SubSeq(whole, SepAt(k - 1) + 1, SepAt(k) - 1)]

\* index of the first "=" of a line from index i on, 0 when there is none
FirstEq(line, i) ==
    LET eqs == {j \in i..Len(line) : line[j] = "="}
    IN  IF eqs = {} THEN 0 ELSE Least(eqs)

\* length of the longest run of [A-Z0-9_] that starts at index i
NameRun(text, i) ==
    LET stops == {j \in i..Len(text) : text[j] \notin NameChars}
    IN  IF i > Len(text) THEN 0
        ELSE IF stops = {} THEN Len(text) - i + 1
        ELSE Least(stops) - i

\* text.match(/NEXT_PUBLIC_[A-Z0-9_]+/g): the matches from index i on, left to
\* right, each greedy, the search resuming after the end of a match
RECURSIVE MatchAll(_, _)
MatchAll(text, i) ==
    IF i + Len(NP) > Len(text) THEN <<>>
    ELSE IF /\ SubSeq(text, i, i + Len(NP) - 1) = NP
            /\ NameRun(text, i + Len(NP)) > 0
         THEN LET stop == i + Len(NP) + NameRun(text, i + Len(NP))
              IN  <<SubSeq(text, i, stop - 1)>> \o MatchAll(text, stop)
         ELSE MatchAll(text, i + 1)

-----------------------------------------------------------------------------
(* JavaScript values, as far as the rule can tell them apart *)

NoProps == <<>>

Undefined == [t |-> "undefined", s |-> <<>>, n |-> 0]
Null      == [t |-> "null", s |-> <<>>, n |-> 0]
Bool(b)   == [t |-> "boolean", s |-> <<>>, n |-> IF b THEN 1 ELSE 0]
Num(k)    == [t |-> "number", s |-> <<>>, n |-> k]
Str(text) == [t |-> "string", s |-> text, n |-> 0]
\* an array of k elements
Arr(k)    == [t |-> "array", s |-> <<>>, n |-> k]
\* a nested object without a "length" property
EmptyObj  == [t |-> "object", s |-> <<>>, n |-> 0]

\* a value at the top of a document: an object carries its own properties
Top(v)     == [t |-> v.t, s |-> v.s, n |-> v.n, props |-> NoProps]
Object(ps) == [t |-> "object", s |-> <<>>, n |-> 0, props |-> ps]
\* {}
EmptyStore == Object(NoProps)

\* ToBoolean
Truthy(v) ==
    CASE v.t = "undefined" -> FALSE
      [] v.t = "null"      -> FALSE
      [] v.t = "boolean"   -> v.n = 1
      [] v.t = "number"    -> v.n # 0
      [] v.t = "string"    -> v.s # <<>>
      [] OTHER             -> TRUE

\* does reading a property of v throw a TypeError
GetThrows(v) == v.t \in {"undefined", "null"}

\* v[key] for a key that no prototype defines and that is not an array index
Get(v, key) ==
    IF v.t = "object" /\ key \in DOMAIN v.props THEN v.props[key] ELSE Undefined

\* v.length, a number or undefined
LengthOf(v) ==
    CASE v.t = "string" -> Num(Len(v.s))
      [] v.t = "array"  -> Num(v.n)
      [] OTHER          -> Undefined

\* a < b for a = x.length and a number b: false when a is undefined (NaN)
LessThan(a, b) == a.t = "number" /\ a.n < b

-----------------------------------------------------------------------------
(* The sidecar file and its two parsers *)

\* "__proto__"
Proto == <<"_", "_", "p", "r", "o", "t", "o", "_", "_">>

\* A file content is either the serialisation of a JSON document (kind
\* "json", doc the value JSON.parse returns for it) or a plain text (kind
\* "text") given character by character.
JsonDoc(v)   == [kind |-> "json", doc |-> v, text |-> <<>>]
PlainText(x) == [kind |-> "text", doc |-> Top(Undefined), text |-> x]

\* Is a plain text a JSON document.  Over the characters modelled (no digits,
\* brackets, braces, backslashes, and no spelling of true, false or null) the
\* only JSON documents are string literals between optional white space.
IsJsonString(text) ==
    LET body == Trim(text)
    IN  /\ Len(body) >= 2
        /\ body[1] = "\""
        /\ body[Len(body)] = "\""
        /\ \A i \in 2..(Len(body) - 1) : body[i] \notin {"\"", "\n"}

\* JSON.parse(content): the value, or threw (a SyntaxError)
JSONparse(content) ==
    IF content.kind = "json"
    THEN [threw |-> FALSE, value |-> content.doc]
    ELSE IF IsJsonString(content.text)
         THEN LET body == Trim(content.text)
              IN  [threw |-> FALSE,
                   value |-> Top(Str(SubSeq(body, 2, Len(body) - 1)))]
         ELSE [threw |-> TRUE, value |-> Top(Undefined)]

\* line.match(/^([^=]+)="(.*)"$/): the key is what precedes the first "=",
\* which the opening quote must follow; the line must end with a quote
MatchLine(line) ==
    LET eq == FirstEq(line, 1)
        ok == /\ eq > 1
              /\ Len(line) >= eq + 2
              /\ line[eq + 1] = "\""
              /\ line[Len(line)] = "\""
    IN  [matched |-> ok,
         key     |-> IF ok THEN SubSeq(line, 1, eq - 1) ELSE <<>>,
         value   |-> IF ok THEN SubSeq(line, eq + 2, Len(line) - 1) ELSE <<>>]

\* justifications[key] = value on a plain object and a string value: the
\* inherited __proto__ setter ignores a value that is not an object
SetProp(props, key, value) ==
    IF key = Proto THEN props
    ELSE [k \in (DOMAIN props) \cup {key} |->
            IF k = key THEN value ELSE props[k]]

\* the body of lines.forEach without the two trims of line 80
SimpleLineUntrimmed(props, line) ==
    IF Trim(line) = <<>> \/ StartsWith(Trim(line), <<"#">>) THEN props
    ELSE LET m == MatchLine(line)
         IN  IF m.matched
             THEN SetProp(props, m.key, Str(m.value))
             ELSE props

\* the body of lines.forEach in parseSimpleFormat
SimpleLine(props, line) ==
    IF Trim(line) = <<>> \/ StartsWith(Trim(line), <<"#">>) THEN props
    ELSE LET m == MatchLine(line)
         IN  IF m.matched
             THEN SetProp(props, Trim(m.key), Str(Trim(m.value)))
             ELSE props

RECURSIVE SimpleLines(_, _, _)
SimpleLines(props, lines, i) ==
    IF i > Len(lines) THEN props
    ELSE SimpleLines(SimpleLine(props, lines[i]), lines, i + 1)

parseSimpleFormat(text) == Object(SimpleLines(NoProps, Split(text, <<>>), 1))

\* try { return JSON.parse(content) } catch (e) { return parseSimpleFormat(content) }
parseContent(content) ==
    LET j == JSONparse(content)
    IN  IF j.threw
        THEN [store |-> parseSimpleFormat(content.text), parser |-> "simple"]
        ELSE [store |-> j.value, parser |-> "json"]

-----------------------------------------------------------------------------
(* The file system and the loader *)

\* the directory at depth k: / is <<>>, then /d, /d/d, ...
Dir(k) == [i \in 1..k |-> "d"]
Dirs   == {Dir(k) : k \in 0..MaxDepth}
Root   == Dir(0)

\* path.dirname of a directory
Dirname(dir) == IF dir = <<>> THEN dir ELSE SubSeq(dir, 1, Len(dir) - 1)

FileNames == {".nextpublicrc", "custom.rc"}
Paths     == [dir : Dirs, name : FileNames]

\* path.join(currentDir, ".nextpublicrc")
RcFile(dir) == [dir |-> dir, name |-> ".nextpublicrc"]

\* options.rcPath: not given, or a relative path as its segments ("" is <<>>)
NoRcPath    == [given |-> FALSE, rel |-> <<>>]
RcPathOf(r) == [given |-> TRUE, rel |-> r]
RcPaths     == {NoRcPath, RcPathOf(<<>>), RcPathOf(<<"custom.rc">>)}

\* path.resolve(cwd, rcPath) for a non-empty relative path
Resolve(dir, rel) ==
    [dir  |-> dir \o SubSeq(rel, 1, Len(rel) - 1), name |-> rel[Len(rel)]]

Absent       == [exists |-> FALSE, readable |-> FALSE, content |-> PlainText(<<>>)]
Unreadable   == [exists |-> TRUE, readable |-> FALSE, content |-> PlainText(<<>>)]
FileWith(c)  == [exists |-> TRUE, readable |-> TRUE, content |-> c]

NoPath == [dir |-> <<>>, name |-> ""]

\* fs.readFileSync followed by the try/catch around JSON.parse; readFileSync
\* throws when the file cannot be read and nothing catches it
ReadAndParse(d, path, branch) ==
    IF ~d[path].readable
    THEN [threw |-> TRUE, store |-> EmptyStore, branch |-> branch,
          path |-> path, parser |-> "none", logged |-> FALSE]
    ELSE LET p == parseContent(d[path].content)
         IN  [threw |-> FALSE, store |-> p.store, branch |-> branch,
              path |-> path, parser |-> p.parser, logged |-> FALSE]

\* console.log("No .nextpublicrc file found ..."); return {}
NotFound ==
    [threw |-> FALSE, store |-> EmptyStore, branch |-> "none",
     path |-> NoPath, parser |-> "none", logged |-> TRUE]

\* the while loop of readJustificationsFile, entered with currentDir
RECURSIVE Search(_, _, _)
Search(d, currentDir, root) ==
    IF currentDir = root THEN NotFound
    ELSE IF d[RcFile(currentDir)].exists
         THEN ReadAndParse(d, RcFile(currentDir), "search")
         ELSE IF Dirname(currentDir) = currentDir THEN NotFound
              ELSE Search(d, Dirname(currentDir), root)

\* readJustificationsFile that looks for .nextpublicrc before the rcPath file
readJustificationsFileSearchFirst(d, dir, rc) ==
    LET custom == rc.given /\ rc.rel # <<>>
        found  == Search(d, dir, Root)
    IN  IF found.branch = "none" /\ custom /\ d[Resolve(dir, rc.rel)].exists
        THEN ReadAndParse(d, Resolve(dir, rc.rel), "custom")
        ELSE found

\* readJustificationsFile that keeps what the first finished visit saw on disk
readJustificationsFileCached(d, dir, rc) ==
    LET kept   == IF history = <<>> THEN d ELSE history[1].disk
        custom == rc.given /\ rc.rel # <<>>
    IN  IF custom /\ kept[Resolve(dir, rc.rel)].exists
        THEN ReadAndParse(kept, Resolve(dir, rc.rel), "custom")
        ELSE Search(kept, dir, Root)

readJustificationsFile(d, dir, rc) ==
    LET custom == rc.given /\ rc.rel # <<>>
    IN  IF custom /\ d[Resolve(dir, rc.rel)].exists
        THEN ReadAndParse(d, Resolve(dir, rc.rel), "custom")
        ELSE Search(d, dir, Root)

-----------------------------------------------------------------------------
(* checkJustification *)

\* the threshold checkJustification compares the length with
MinLength == 20
\* the number its "must be at least" message prints
MessageLength == 8

\* message: `NEXT_PUBLIC variable '${variable}' requires justification in
\* .nextpublicrc file`
Requires(variable, node) ==
    [node |-> node, kind |-> "requires", variable |-> variable, atLeast |-> 0]

\* message: `Justification for NEXT_PUBLIC variable '${variable}' must be at
\* least 8 characters long`
TooShort(variable, node) ==
    [node |-> node, kind |-> "tooShort", variable |-> variable,
     atLeast |-> MessageLength]

\* checkJustification with <= where the code has <
checkJustificationInclusive(variable, store, node) ==
    IF GetThrows(store)
    THEN [threw |-> TRUE, reports |-> <<>>]
    ELSE IF ~Truthy(Get(store, variable))
         THEN [threw |-> FALSE, reports |-> <<Requires(variable, node)>>]
         ELSE IF LessThan(LengthOf(Get(store, variable)), MinLength + 1)
              THEN [threw |-> FALSE, reports |-> <<TooShort(variable, node)>>]
              ELSE [threw |-> FALSE, reports |-> <<>>]

\* checkJustification that reports a name only until a finished file has
\* added it to the process-wide set
checkJustificationOncePerProcess(variable, store, node) ==
    IF GetThrows(store)
    THEN [threw |-> TRUE, reports |-> <<>>]
    ELSE IF variable \in globalState.allFoundVariables
         THEN [threw |-> FALSE, reports |-> <<>>]
         ELSE IF ~Truthy(Get(store, variable))
              THEN [threw |-> FALSE, reports |-> <<Requires(variable, node)>>]
              ELSE IF LessThan(LengthOf(Get(store, variable)), MinLength)
                   THEN [threw |-> FALSE,
                         reports |-> <<TooShort(variable, node)>>]
                   ELSE [threw |-> FALSE, reports |-> <<>>]

\* the context.report calls of one call of checkJustification, or threw when
\* justifications[variable] is a property read of null
checkJustification(variable, store, node) ==
    IF GetThrows(store)
    THEN [threw |-> TRUE, reports |-> <<>>]
    ELSE IF ~Truthy(Get(store, variable))
         THEN [threw |-> FALSE, reports |-> <<Requires(variable, node)>>]
         ELSE IF LessThan(LengthOf(Get(store, variable)), MinLength)
              THEN [threw |-> FALSE, reports |-> <<TooShort(variable, node)>>]
              ELSE [threw |-> FALSE, reports |-> <<>>]

\* matches.forEach(variable => checkJustification(...)) from the i-th match on:
\* foundVariables.add comes first, an exception ends the loop
RECURSIVE CheckEach(_, _, _, _, _)
CheckEach(variables, i, store, node, acc) ==
    IF i > Len(variables) THEN acc
    ELSE LET c    == checkJustification(variables[i], store, node)
             next == [threw   |-> c.threw,
                      reports |-> acc.reports \o c.reports,
                      found   |-> acc.found \cup {variables[i]}]
         IN  IF c.threw THEN next
             ELSE CheckEach(variables, i + 1, store, node, next)

\* a visitor that found nothing to check
Quiet == [threw |-> FALSE, reports |-> <<>>, found |-> {}]

CheckAll(variables, store, node) == CheckEach(variables, 1, store, node, Quiet)

-----------------------------------------------------------------------------
(* The syntax tree: the nodes of the four visited types, in traversal order; *)
(* object and property are indexes into the sequence, 0 when absent          *)

Ident(name) ==
    [type |-> "Identifier", name |-> name, value |-> Undefined, raw |-> <<>>,
     object |-> 0, property |-> 0]
Lit(value) ==
    [type |-> "Literal", name |-> <<>>, value |-> value, raw |-> <<>>,
     object |-> 0, property |-> 0]
Tmpl(raw) ==
    [type |-> "TemplateElement", name |-> <<>>, value |-> Undefined,
     raw |-> raw, object |-> 0, property |-> 0]
Member(object, property) ==
    [type |-> "MemberExpression", name |-> <<>>, value |-> Undefined,
     raw |-> <<>>, object |-> object, property |-> property]

ProcessName == <<"p", "r", "o", "c", "e", "s", "s">>
EnvName     == <<"e", "n", "v">>

VarA == NP \o <<"A">>
VarB == NP \o <<"B">>

\* process.env.X : the outer member expression, then its children
ProcessEnvDot(x) ==
    <<Member(2, 5), Member(3, 4), Ident(ProcessName), Ident(EnvName), Ident(x)>>

\* process.env["text"]
ProcessEnvIndex(text) ==
    <<Member(2, 5), Member(3, 4), Ident(ProcessName), Ident(EnvName),
      Lit(Str(text))>>

\* the source files the model lints
Programs ==
    { ProcessEnvDot(VarA),
      ProcessEnvIndex(VarA),
      <<Lit(Str(VarA))>>,
      <<Ident(VarA)>>,
      <<Tmpl(<<"=">> \o VarA \o <<" ">>)>>,
      <<Lit(Str(VarA \o <<" ">> \o VarB))>>,
      <<Ident(VarB), Tmpl(VarB \o <<"x">> \o VarA)>>,
      <<Member(2, 3), Ident(<<"f">>), Ident(EnvName), Lit(Num(42))>>,
      <<Ident(NP), Lit(Str(NP \o <<"a">>)), Tmpl(NP)>> }

\* the variable names those files can make the rule detect
Names == {VarA, VarB, NP}

-----------------------------------------------------------------------------
(* The visitors: what one callback does with the node at index i *)

\* Literal: function(node)
LiteralVisitor(tree, i, store) ==
    IF tree[i].value.t = "string" /\ Includes(tree[i].value.s, NP)
    THEN CheckAll(MatchAll(tree[i].value.s, 1), store, i)
    ELSE Quiet

\* Identifier: function(node)
IdentifierVisitor(tree, i, store) ==
    IF StartsWith(tree[i].name, NP)
    THEN CheckAll(<<tree[i].name>>, store, i)
    ELSE Quiet

\* TemplateElement: function(node)
TemplateElementVisitor(tree, i, store) ==
    IF tree[i].raw # <<>> /\ Includes(tree[i].raw, NP)
    THEN CheckAll(MatchAll(tree[i].raw, 1), store, i)
    ELSE Quiet

\* node.object is process.env
OnProcessEnv(tree, i) ==
    /\ tree[i].object # 0
    /\ tree[tree[i].object].type = "MemberExpression"
    /\ tree[tree[i].object].object # 0
    /\ tree[tree[tree[i].object].object].name = ProcessName
    /\ tree[tree[i].object].property # 0
    /\ tree[tree[tree[i].object].property].name = EnvName
    /\ tree[i].property # 0

\* the MemberExpression visitor without its process.env["..."] case
MemberExpressionVisitorDotOnly(tree, i, store) ==
    IF /\ OnProcessEnv(tree, i)
       /\ tree[tree[i].property].type = "Identifier"
       /\ StartsWith(tree[tree[i].property].name, NP)
    THEN CheckAll(<<tree[tree[i].property].name>>, store, i)
    ELSE Quiet

\* MemberExpression: function(node): the two cases exclude each other
MemberExpressionVisitor(tree, i, store) ==
    IF /\ OnProcessEnv(tree, i)
       /\ tree[tree[i].property].type = "Identifier"
       /\ StartsWith(tree[tree[i].property].name, NP)
    THEN CheckAll(<<tree[tree[i].property].name>>, store, i)
    ELSE IF /\ OnProcessEnv(tree, i)
            /\ tree[tree[i].property].type = "Literal"
            /\ tree[tree[i].property].value.t = "string"
            /\ StartsWith(tree[tree[i].property].value.s, NP)
         THEN CheckAll(<<tree[tree[i].property].value.s>>, store, i)
         ELSE Quiet

\* the visitor the host calls for the node at index i
VisitorAt(tree, i, store) ==
    CASE tree[i].type = "Literal" -> LiteralVisitor(tree, i, store)
      [] tree[i].type = "Identifier" -> IdentifierVisitor(tree, i, store)
      [] tree[i].type = "TemplateElement" ->
            TemplateElementVisitor(tree, i, store)
      [] tree[i].type = "MemberExpression" ->
            MemberExpressionVisitor(tree, i, store)

\* the host's traversal from node i on: every node goes to its visitor, in
\* order, until the end of the tree or the first exception
RECURSIVE Traverse(_, _, _, _)
Traverse(tree, i, store, acc) ==
    IF i > Len(tree) THEN acc
    ELSE LET v    == VisitorAt(tree, i, store)
             next == [threw   |-> v.threw,
                      reports |-> acc.reports \o v.reports,
                      found   |-> acc.found \cup v.found]
         IN  IF v.threw THEN next ELSE Traverse(tree, i + 1, store, next)

\* one whole file visit against a store
Lint(tree, store) == Traverse(tree, 1, store, Quiet)

-----------------------------------------------------------------------------
(* What the sidecar file may hold *)

\* { "NEXT_PUBLIC_A": v }
OnlyA(v) == JsonDoc(Object(VarA :> v))

\* the line KEY="value"
Line(key, value) == key \o <<"=", "\"">> \o value \o <<"\"">>

\* documents whose entry for NEXT_PUBLIC_A is a text, around both thresholds
TextEntries ==
    {OnlyA(Str(Filler(n))) :
        n \in {0, MessageLength - 1, MessageLength, MinLength - 1, MinLength,
               MinLength + 1}}

\* documents whose entry for NEXT_PUBLIC_A is not a text
OtherEntries ==
    {OnlyA(v) :
        v \in {Num(12345), Num(0), Bool(TRUE), Bool(FALSE), Null, Arr(0),
               Arr(MinLength + 5), EmptyObj}}

\* documents that are objects without NEXT_PUBLIC_A, or not objects at all
OtherDocs ==
    {JsonDoc(EmptyStore),
     JsonDoc(Object(VarB :> Str(Filler(MinLength)))),
     JsonDoc(Object((VarA :> Str(Filler(MinLength)))
                        @@ (VarB :> Str(Filler(MessageLength))))),
     JsonDoc(Top(Null)), JsonDoc(Top(Arr(0))), JsonDoc(Top(Num(42))),
     JsonDoc(Top(Bool(TRUE)))}

\* files in the line format, and a JSON string literal
LineFiles ==
    {PlainText(Line(VarA, Filler(MinLength))),
     PlainText(Line(VarA, <<>>)),
     PlainText(Line(VarA, Filler(MinLength - 1))),
     PlainText(<<"#", " ", "x", "\n">> \o Line(VarA, Filler(MinLength))
                   \o <<"\n">> \o Line(VarB, Filler(MinLength))),
     PlainText(VarA),
     PlainText(<<>>),
     PlainText(<<"\"">> \o VarA \o <<"\"">>)}

Contents == TextEntries \cup OtherEntries \cup OtherDocs \cup LineFiles

\* the contents the loader's search is exercised with
LoaderContents ==
    {JsonDoc(EmptyStore),
     OnlyA(Str(Filler(MinLength))),
     PlainText(Line(VarA, Filler(MinLength + 1)))}

\* the source files the loader's search is exercised with
LoaderPrograms ==
    {ProcessEnvDot(VarA),
     <<Lit(Str(VarA \o <<" ">> \o VarB)), Tmpl(<<"=">> \o VarA)>>}

\* the directory the project's own .nextpublicrc lives in
ProjectDir == Dir(1)

-----------------------------------------------------------------------------
(* State *)

NoGlobal ==
    [defined |-> FALSE, allFoundVariables |-> {}, processed |-> FALSE,
     exitListenerAdded |-> FALSE]

NotFoundLine == [line |-> "No .nextpublicrc file found in any parent directory",
                 count |-> 0]
TotalLine(k) == [line |-> "Found a total of N unique NEXT_PUBLIC variables across all files.",
                 count |-> k]

NotLoaded == [branch |-> "none", path |-> NoPath, parser |-> "none"]
NotParsed == [store |-> EmptyStore, parser |-> "none"]

Init ==
    /\ disk = [p \in Paths |-> Absent]
    /\ pc = "idle"
    /\ cwd = Root
    /\ rcPath = NoRcPath
    /\ justifications = EmptyStore
    /\ loaded = NotLoaded
    /\ foundVariables = {}
    /\ ast = <<>>
    /\ pos = 0
    /\ reports = <<>>
    /\ thrown = "none"
    /\ console = <<>>
    /\ globalState = NoGlobal
    /\ exitListeners = 0
    /\ input = PlainText(<<>>)
    /\ output = NotParsed
    /\ history = <<>>
    /\ harness = "none"

-----------------------------------------------------------------------------
(* Operations *)

\* create that registers its exit listener in every call that returns
CreateRegistersEachTime(dir, rc, prog) ==
    /\ pc = "idle"
    /\ harness # "done"
    /\ LET r == readJustificationsFile(disk, dir, rc)
       IN  /\ cwd' = dir
           /\ rcPath' = rc
           /\ ast' = prog
           /\ pos' = 1
           /\ reports' = <<>>
           /\ foundVariables' = {}
           /\ loaded' = [branch |-> r.branch, path |-> r.path,
                         parser |-> r.parser]
           /\ justifications' = r.store
           /\ console' = IF r.logged THEN <<NotFoundLine>> ELSE <<>>
           /\ IF r.threw
              THEN /\ pc' = "crashed"
                   /\ thrown' = "EACCES"
                   /\ UNCHANGED <<globalState, exitListeners>>
              ELSE /\ pc' = "visiting"
                   /\ thrown' = "none"
                   /\ globalState' =
                         IF globalState.defined THEN globalState
                         ELSE [defined |-> TRUE, allFoundVariables |-> {},
                               processed |-> FALSE,
                               exitListenerAdded |-> TRUE]
                   /\ exitListeners' = exitListeners + 1
    /\ UNCHANGED <<disk, input, output, history, harness>>

\* create(context) for a file whose tree is prog, linted with working directory
\* dir and option rc.  readFileSync's exception escapes create.
Create(dir, rc, prog) ==
    /\ pc = "idle"
    /\ harness # "done"
    /\ LET r == readJustificationsFile(disk, dir, rc)
       IN  /\ cwd' = dir
           /\ rcPath' = rc
           /\ ast' = prog
           /\ pos' = 1
           /\ reports' = <<>>
           /\ foundVariables' = {}
           /\ loaded' = [branch |-> r.branch, path |-> r.path,
                         parser |-> r.parser]
           /\ justifications' = r.store
           /\ console' = IF r.logged THEN <<NotFoundLine>> ELSE <<>>
           /\ IF r.threw
              THEN /\ pc' = "crashed"
                   /\ thrown' = "EACCES"
                   /\ UNCHANGED <<globalState, exitListeners>>
              ELSE /\ pc' = "visiting"
                   /\ thrown' = "none"
                   /\ IF globalState.defined
                      THEN UNCHANGED <<globalState, exitListeners>>
                      ELSE /\ globalState' =
                                [defined |-> TRUE, allFoundVariables |-> {},
                                 processed |-> FALSE,
                                 exitListenerAdded |-> TRUE]
                           /\ exitListeners' = exitListeners + 1
    /\ UNCHANGED <<disk, input, output, history, harness>>

\* the host hands the node at pos to the visitor of its type
Visit(v) ==
    /\ reports' = reports \o v.reports
    /\ foundVariables' = foundVariables \cup v.found
    /\ IF v.threw
       THEN pc' = "crashed" /\ thrown' = "TypeError" /\ pos' = pos
       ELSE pc' = pc /\ thrown' = thrown /\ pos' = pos + 1
    /\ UNCHANGED <<disk, cwd, rcPath, justifications, loaded, ast, console,
                   globalState, exitListeners, input, output, history,
                   harness>>

AtNode(type) ==
    /\ pc = "visiting"
    /\ pos <= Len(ast)
    /\ ast[pos].type = type

Literal ==
    /\ AtNode("Literal")
    /\ Visit(LiteralVisitor(ast, pos, justifications))

Identifier ==
    /\ AtNode("Identifier")
    /\ Visit(IdentifierVisitor(ast, pos, justifications))

TemplateElement ==
    /\ AtNode("TemplateElement")
    /\ Visit(TemplateElementVisitor(ast, pos, justifications))

MemberExpression ==
    /\ AtNode("MemberExpression")
    /\ Visit(MemberExpressionVisitor(ast, pos, justifications))

\* every node of the file has been handed to its visitor
TraversalComplete == pc = "visiting" /\ pos > Len(ast)

\* "Program:exit": the file's names join the process-wide set.  The visit is
\* over: the host has taken the diagnostics and the closure of create (store,
\* found set) is dropped.
ProgramExitStep ==
    /\ TraversalComplete
    /\ IF globalState.defined
       THEN /\ globalState' =
                 [globalState EXCEPT !.allFoundVariables = @ \cup foundVariables]
            /\ pc' = "idle"
            /\ thrown' = thrown
            /\ cwd' = Root
            /\ rcPath' = NoRcPath
            /\ justifications' = EmptyStore
            /\ loaded' = NotLoaded
            /\ foundVariables' = {}
            /\ ast' = <<>>
            /\ pos' = 0
            /\ reports' = <<>>
       ELSE /\ globalState' = globalState
            /\ pc' = "crashed"
            /\ thrown' = "TypeError"
            /\ UNCHANGED <<cwd, rcPath, justifications, loaded,
                           foundVariables, ast, pos, reports>>
    /\ UNCHANGED <<disk, console, exitListeners, input, output, harness>>

\* what a finished file visit was given and what it reported
Finished ==
    [cwd |-> cwd, rcPath |-> rcPath, ast |-> ast, disk |-> disk,
     reports |-> reports, found |-> foundVariables]

\* Program:exit
ProgramExit ==
    /\ ProgramExitStep
    /\ UNCHANGED history

\* Program:exit of a file visit that history keeps
ProgramExitObserved ==
    /\ Len(history) < MaxRuns
    /\ ProgramExitStep
    /\ history' = IF pc' = "idle" THEN Append(history, Finished) ELSE history

\* what k exit listeners print, one after the other, starting from the set
\* found: each prints the size and clears the set
RECURSIVE ExitLines(_, _)
ExitLines(k, found) ==
    IF k = 0 THEN <<>>
    ELSE <<TotalLine(Cardinality(found))>> \o ExitLines(k - 1, {})

\* the process exits: every registered 'exit' listener runs
ProcessExit ==
    /\ pc \in {"idle", "crashed"}
    /\ pc' = "exited"
    /\ console' = console \o ExitLines(exitListeners, globalState.allFoundVariables)
    /\ globalState' =
          IF exitListeners > 0
          THEN [globalState EXCEPT !.allFoundVariables = {}]
          ELSE globalState
    /\ UNCHANGED <<disk, cwd, rcPath, justifications, loaded, foundVariables,
                   ast, pos, reports, thrown, exitListeners, input, output,
                   history, harness>>

\* the project's .nextpublicrc is edited between two file visits (an edit
\* during a traversal is not seen before the next create)
EditRc(content) ==
    /\ pc = "idle"
    /\ harness = "none"
    /\ disk' = [disk EXCEPT ![RcFile(ProjectDir)] = FileWith(content)]
    /\ UNCHANGED <<pc, cwd, rcPath, justifications, loaded, foundVariables,
                   ast, pos, reports, thrown, console, globalState,
                   exitListeners, input, output, history, harness>>

\* the file system the test file's mocks of fs.existsSync and fs.readFileSync
\* show: every .nextpublicrc exists and holds JSON.stringify(mockJustifications)
MockedDisk(mockJustifications) ==
    [p \in Paths |->
        IF p.name = ".nextpublicrc" THEN FileWith(JsonDoc(mockJustifications))
        ELSE Absent]

\* beforeAll of the test file, in a process that has not linted yet and whose
\* real disk holds no sidecar file: fs is mocked and the global object is
\* preset with exitListenerAdded true; mockJustifications is {}
BeforeAll ==
    /\ harness = "none"
    /\ pc = "idle"
    /\ ~globalState.defined
    /\ disk = [p \in Paths |-> Absent]
    /\ harness' = "jest"
    /\ disk' = MockedDisk(EmptyStore)
    /\ globalState' =
          [defined |-> TRUE, allFoundVariables |-> {}, processed |-> FALSE,
           exitListenerAdded |-> TRUE]
    /\ UNCHANGED <<pc, cwd, rcPath, justifications, loaded, foundVariables,
                   ast, pos, reports, thrown, console, exitListeners, input,
                   output, history>>

\* the object a before hook of the test file's cases gives mockJustifications:
\* nothing, a text long enough, a short one
Mocks ==
    {EmptyStore, Object(VarA :> Str(Filler(MinLength + 5))),
     Object(VarA :> Str(Filler(5)))}

\* the before hook of a test case assigns mockJustifications
Before(mockJustifications) ==
    /\ harness = "jest"
    /\ pc = "idle"
    /\ disk' = MockedDisk(mockJustifications)
    /\ UNCHANGED <<pc, cwd, rcPath, justifications, loaded, foundVariables,
                   ast, pos, reports, thrown, console, globalState,
                   exitListeners, input, output, history, harness>>

\* afterAll of the test file: fs is restored and the global object deleted
\* (the lines after the delete never run)
AfterAll ==
    /\ harness = "jest"
    /\ pc = "idle"
    /\ harness' = "done"
    /\ disk' = [p \in Paths |-> Absent]
    /\ globalState' = NoGlobal
    /\ UNCHANGED <<pc, cwd, rcPath, justifications, loaded, foundVariables,
                   ast, pos, reports, thrown, console, exitListeners, input,
                   output, history>>

NumFiles(d) == Cardinality({p \in Paths : d[p].exists})

\* any file of the tree is created, replaced, made unreadable or removed
\* between two file visits
PlaceFile(path, state) ==
    /\ pc = "idle"
    /\ harness = "none"
    /\ disk' = [disk EXCEPT ![path] = state]
    /\ NumFiles(disk') <= MaxFiles
    /\ UNCHANGED <<pc, cwd, rcPath, justifications, loaded, foundVariables,
                   ast, pos, reports, thrown, console, globalState,
                   exitListeners, input, output, history, harness>>

Next ==
    \/ \E dir \in Dirs, prog \in Programs : Create(dir, NoRcPath, prog)
    \/ Literal
    \/ Identifier
    \/ TemplateElement
    \/ MemberExpression
    \/ ProgramExit
    \/ ProcessExit
    \/ \E content \in Contents : EditRc(content)

Spec == Init /\ [][Next]_vars

-----------------------------------------------------------------------------
(* The parsers on their own: every short text, some two-line files and the   *)
(* documents above are parsed once                                           *)

ParseAlphabet == {"K", "=", "\"", " ", "#", "\n"}

ShortTexts == UNION {[1..k -> ParseAlphabet] : k \in 0..MaxTextLen}

KeyK == <<"K">>

SampleLines ==
    {Line(KeyK, <<"K">>),
     Line(KeyK, <<>>),
     Line(<<" ", "K", " ">>, <<" ", "K", "K", " ">>),
     <<" ", "#">> \o Line(KeyK, <<"K">>),
     Line(Proto, <<"K">>),
     Line(<<"J">>, <<"K">>),
     <<"K", "=", "K">>,
     <<>>}

TwoLineTexts == {a \o <<"\n">> \o b : a, b \in SampleLines}

ParseInputs ==
    {PlainText(x) : x \in ShortTexts \cup TwoLineTexts} \cup Contents

ParseInit ==
    /\ disk = [p \in Paths |-> Absent]
    /\ pc = "idle"
    /\ cwd = Root
    /\ rcPath = NoRcPath
    /\ justifications = EmptyStore
    /\ loaded = NotLoaded
    /\ foundVariables = {}
    /\ ast = <<>>
    /\ pos = 0
    /\ reports = <<>>
    /\ thrown = "none"
    /\ console = <<>>
    /\ globalState = NoGlobal
    /\ exitListeners = 0
    /\ input \in ParseInputs
    /\ output = NotParsed
    /\ history = <<>>
    /\ harness = "none"

\* the content is read: JSON.parse, and parseSimpleFormat when that throws
Parse ==
    /\ output.parser = "none"
    /\ output' = parseContent(input)
    /\ UNCHANGED <<disk, pc, cwd, rcPath, justifications, loaded,
                   foundVariables, ast, pos, reports, thrown, console,
                   globalState, exitListeners, input, history, harness>>

ParseNext == Parse

SpecParse == ParseInit /\ [][ParseNext]_vars

LoaderNext ==
    \/ \E dir \in Dirs, rc \in RcPaths, prog \in LoaderPrograms :
          Create(dir, rc, prog)
    \/ Literal
    \/ Identifier
    \/ TemplateElement
    \/ MemberExpression
    \/ ProgramExit
    \/ ProcessExit
    \/ \E path \in Paths,
          state \in {Absent, Unreadable} \cup {FileWith(c) : c \in LoaderContents} :
          PlaceFile(path, state)

SpecLoader == Init /\ [][LoaderNext]_vars

-----------------------------------------------------------------------------
(* Several file visits in one process, each finished visit kept in history  *)

RunPrograms ==
    {ProcessEnvDot(VarA), ProcessEnvIndex(VarA),
     <<Ident(VarB), Tmpl(VarB \o <<"x">> \o VarA)>>}

RunContents ==
    {OnlyA(Str(Filler(MinLength))), OnlyA(Str(Filler(MessageLength))),
     JsonDoc(Top(Null))}

RunsNext ==
    \/ \E prog \in RunPrograms : Create(ProjectDir, NoRcPath, prog)
    \/ Literal
    \/ Identifier
    \/ TemplateElement
    \/ MemberExpression
    \/ ProgramExitObserved
    \/ ProcessExit
    \/ \E content \in RunContents : EditRc(content)
    \/ PlaceFile(RcFile(ProjectDir), Unreadable)
    \/ BeforeAll
    \/ \E mockJustifications \in Mocks : Before(mockJustifications)
    \/ AfterAll

SpecRuns == Init /\ [][RunsNext]_vars

-----------------------------------------------------------------------------
(* Vocabulary of the properties *)

\* the store has an entry of its own for the name
HasEntry(store, name) == store.t = "object" /\ name \in DOMAIN store.props

\* the store maps the name to a text of at least k characters
HasText(store, name, k) ==
    /\ HasEntry(store, name)
    /\ store.props[name].t = "string"
    /\ Len(store.props[name].s) >= k

\* the diagnostics of the current visit that name the variable
ReportsOf(name) == {i \in 1..Len(reports) : reports[i].variable = name}

\* create() has returned or thrown and the visit is not over
InVisit == pc \in {"visiting", "crashed"}

\* the file holds one member access to NEXT_PUBLIC_A and nothing else
OneMemberAccess == ast \in {ProcessEnvDot(VarA), ProcessEnvIndex(VarA)}

-----------------------------------------------------------------------------
(* Properties of the diagnostics *)

\* C1: a file whose only reference is process.env.NEXT_PUBLIC_A or
\* process.env["NEXT_PUBLIC_A"], linted against a store without an entry for
\* it, has exactly one diagnostic after the whole traversal, the "requires
\* justification" one.
C1_OneDiagnosticPerMemberAccess ==
    (TraversalComplete /\ OneMemberAccess /\ justifications.t = "object"
        /\ ~HasEntry(justifications, VarA))
    => (Len(reports) = 1 /\ reports[1].kind = "requires"
        /\ reports[1].variable = VarA)

\* C2: a detected name whose store entry is a text of at least MinLength
\* characters (MinLength itself included) gets no diagnostic.
C2_JustifiedIsSilent ==
    \A name \in Names :
        (InVisit /\ HasText(justifications, name, MinLength))
        => ReportsOf(name) = {}

\* C2 witness: process.env.NEXT_PUBLIC_A traversed to the end against a
\* justification of exactly MinLength characters, without a diagnostic.
C2_Witness ==
    /\ TraversalComplete
    /\ ast = ProcessEnvDot(VarA)
    /\ VarA \in foundVariables
    /\ HasText(justifications, VarA, MinLength)
    /\ Len(justifications.props[VarA].s) = MinLength
    /\ reports = <<>>

\* C3: a detected reference is without a diagnostic only when the store maps
\* its name to a text of at least 20 characters.
C3_SilentOnlyForLongText ==
    \A name \in Names :
        (pc = "visiting" /\ name \in foundVariables /\ ReportsOf(name) = {})
        => HasText(justifications, name, 20)

\* C4: a "must be at least N characters" diagnostic is about a stored
\* justification shorter than the N it prints.
C4_PrintedThresholdIsEnforced ==
    \A i \in 1..Len(reports) :
        reports[i].kind = "tooShort"
        => LessThan(LengthOf(Get(justifications, reports[i].variable)),
                    reports[i].atLeast)

\* C5: "requires justification" names a variable without an entry in the
\* store, "must be at least" names a variable with one.
C5_RequiresMeansNoEntry ==
    \A i \in 1..Len(reports) :
        /\ reports[i].kind = "requires"
              => ~HasEntry(justifications, reports[i].variable)
        /\ reports[i].kind = "tooShort"
              => HasEntry(justifications, reports[i].variable)

\* C10: whatever the sidecar file holds, neither create nor a visitor throws,
\* and a detected name the content gives no entry for is reported as
\* requiring justification.
C10_NothingThrows ==
    /\ pc # "crashed"
    /\ thrown = "none"
    /\ \A name \in foundVariables :
          ~HasEntry(justifications, name)
          => \E i \in ReportsOf(name) : reports[i].kind = "requires"

-----------------------------------------------------------------------------
(* Properties of the loader *)

\* the working directory and its ancestors, the root included
SearchPath(dir) == {SubSeq(dir, 1, k) : k \in 0..Len(dir)}

\* the directories of the search path that hold a .nextpublicrc
Holders(dir) == {h \in SearchPath(dir) : disk[RcFile(h)].exists}

\* the nearest of them
Nearest(dir) == CHOOSE h \in Holders(dir) : \A g \in Holders(dir) : Len(g) <= Len(h)

\* the rcPath option names a file that exists
ExplicitApplies ==
    /\ rcPath.given
    /\ rcPath.rel # <<>>
    /\ disk[Resolve(cwd, rcPath.rel)].exists

\* what parsing the file at a path gives
StoreOf(path) == parseContent(disk[path].content).store

\* C6: without an explicit file the search ends without an error and returns
\* the store of the nearest .nextpublicrc among the working directory and all
\* its ancestors, the root included (stated here for a nearest file that can
\* be read; C7 is about the one that cannot).
C6_NearestOnSearchPath ==
    (InVisit /\ ~ExplicitApplies /\ Holders(cwd) # {}
        /\ disk[RcFile(Nearest(cwd))].readable)
    => /\ thrown # "EACCES"
       /\ justifications = StoreOf(RcFile(Nearest(cwd)))

\* the file the loader is meant to read cannot be read
TargetUnreadable ==
    IF ExplicitApplies THEN ~disk[Resolve(cwd, rcPath.rel)].readable
    ELSE Holders(cwd) # {} /\ ~disk[RcFile(Nearest(cwd))].readable

\* C7: a sidecar file that is missing on the whole search path, or that cannot
\* be read, gives an empty store without an error, and every detected
\* reference is reported as requiring justification.
C7_MissingOrUnreadableIsEmpty ==
    (InVisit /\ ((~ExplicitApplies /\ Holders(cwd) = {}) \/ TargetUnreadable))
    => /\ thrown # "EACCES"
       /\ justifications = EmptyStore
       /\ \A i \in 1..Len(reports) : reports[i].kind = "requires"
       /\ \A name \in foundVariables : ReportsOf(name) # {}

\* C8: when options.rcPath resolves, from the working directory, to a file
\* that exists, that file alone is read and parsed, whatever .nextpublicrc
\* files there are; the upward search runs only without such a file.
C8_ExplicitFileOnly ==
    InVisit =>
        /\ ExplicitApplies
              => /\ loaded.branch = "custom"
                 /\ loaded.path = Resolve(cwd, rcPath.rel)
                 /\ disk[loaded.path].readable
                       => justifications = StoreOf(loaded.path)
        /\ loaded.branch \in {"search", "none"} => ~ExplicitApplies

\* C8 witness: a file visit with an existing explicit file and a different
\* .nextpublicrc next to it, traversed to the end.
C8_Witness ==
    /\ TraversalComplete
    /\ ExplicitApplies
    /\ disk[RcFile(cwd)].exists
    /\ disk[RcFile(cwd)].readable
    /\ StoreOf(RcFile(cwd)) # justifications
    /\ VarA \in foundVariables

-----------------------------------------------------------------------------
(* Properties of the parsers *)

\* the lines of the content under test
InputLines == Split(input.text, <<>>)

\* the line is KEY="VALUE" with its first "=" at index k: a non-empty key
\* without "=", then =", then the value up to the closing quote that ends it
KeyValueAt(line, k) ==
    /\ k \in 2..(Len(line) - 2)
    /\ line[k] = "="
    /\ \A j \in 1..(k - 1) : line[j] # "="
    /\ line[k + 1] = "\""
    /\ line[Len(line)] = "\""

IsKeyValue(line) == \E k \in 1..Len(line) : KeyValueAt(line, k)

EqAt(line) == CHOOSE k \in 1..Len(line) : KeyValueAt(line, k)

KeyOf(line)   == Trim(SubSeq(line, 1, EqAt(line) - 1))
ValueOf(line) == Trim(SubSeq(line, EqAt(line) + 2, Len(line) - 1))

\* the store with one entry per distinct key of the contributing lines, each
\* key bound to the value of the last line that gives it
StoreOfLines(lines, contributing) ==
    LET keys    == {KeyOf(lines[i]) : i \in contributing}
        last(k) == CHOOSE i \in contributing :
                      /\ KeyOf(lines[i]) = k
                      /\ \A j \in contributing : KeyOf(lines[j]) = k => j <= i
    IN  Object([k \in keys |-> Str(ValueOf(lines[last(k)]))])

\* the lines that are non-empty, do not start with "#" and match KEY="VALUE"
PlainContributing(lines) ==
    {i \in 1..Len(lines) :
        /\ lines[i] # <<>>
        /\ lines[i][1] # "#"
        /\ IsKeyValue(lines[i])}

\* the lines that, once trimmed, are non-empty and do not start with "#", that
\* match KEY="VALUE" and whose key is not __proto__
TrimmedContributing(lines) ==
    {i \in 1..Len(lines) :
        /\ Trim(lines[i]) # <<>>
        /\ Trim(lines[i])[1] # "#"
        /\ IsKeyValue(lines[i])
        /\ KeyOf(lines[i]) # Proto}

\* C9 as stated: JSON first, the line format only when JSON.parse fails, and
\* then one entry per distinct key of the lines that are non-empty, do not
\* start with "#" and match KEY="VALUE".
C9_LineFormatAsStated ==
    output.parser # "none"
    => /\ output.parser = "json" <=> ~JSONparse(input).threw
       /\ output.parser = "json" => output.store = JSONparse(input).value
       /\ output.parser = "simple"
             => output.store = StoreOfLines(InputLines, PlainContributing(InputLines))

\* C9 amended: as above, with the emptiness and "#" tests made on the trimmed
\* line, and no entry for the key __proto__.
C9_LineFormat ==
    output.parser # "none"
    => /\ output.parser = "json" <=> ~JSONparse(input).threw
       /\ output.parser = "json" => output.store = JSONparse(input).value
       /\ output.parser = "simple"
             => output.store = StoreOfLines(InputLines, TrimmedContributing(InputLines))

\* C9 witness: a two-line file in the line format whose lines give the same
\* key with different values; the store holds the second.
C9_Witness ==
    /\ output.parser = "simple"
    /\ Len(InputLines) = 2
    /\ TrimmedContributing(InputLines) = {1, 2}
    /\ KeyOf(InputLines[1]) = KeyOf(InputLines[2])
    /\ ValueOf(InputLines[1]) # ValueOf(InputLines[2])
    /\ DOMAIN output.store.props = {KeyOf(InputLines[2])}
    /\ output.store.props[KeyOf(InputLines[2])] = Str(ValueOf(InputLines[2]))

-----------------------------------------------------------------------------
(* Properties across file visits *)

\* the messages of a sequence of diagnostics, without the nodes they point at
Messages(rs) ==
    [i \in 1..Len(rs) |->
        [kind |-> rs[i].kind, variable |-> rs[i].variable,
         atLeast |-> rs[i].atLeast]]

\* names that match NEXT_PUBLIC_[A-Z0-9_]+
PatternNames == {VarA, VarB, NP \o <<"A", "_", "1">>, NP \o <<"_">>}

\* the visit of tree against store ends as the visit in progress has ended
SameOutcome(tree, store) ==
    /\ Messages(Lint(tree, store).reports) = Messages(reports)
    /\ Lint(tree, store).found = foundVariables
    /\ Lint(tree, store).threw <=> (pc = "crashed")

\* C11: for a name X matching the pattern and any store, a file holding only
\* process.env.X and a file holding only process.env["X"] give the same
\* number of diagnostics, the same messages and the same found set.
C11_DotAndIndexAgree ==
    /\ (TraversalComplete \/ pc = "crashed") /\ ast = ProcessEnvDot(VarA)
          => SameOutcome(ProcessEnvIndex(VarA), justifications)
    /\ (TraversalComplete \/ pc = "crashed") /\ ast = ProcessEnvIndex(VarA)
          => SameOutcome(ProcessEnvDot(VarA), justifications)
    /\ InVisit =>
          \A x \in PatternNames :
              LET dot   == Lint(ProcessEnvDot(x), justifications)
                  index == Lint(ProcessEnvIndex(x), justifications)
              IN  /\ Messages(dot.reports) = Messages(index.reports)
                  /\ dot.found = index.found
                  /\ dot.threw = index.threw

\* C11 witness: process.env["NEXT_PUBLIC_A"] traversed to the end against a
\* store without a long enough text for it, with diagnostics.
C11_Witness ==
    /\ TraversalComplete
    /\ ast = ProcessEnvIndex(VarA)
    /\ reports # <<>>
    /\ foundVariables = {VarA}

\* create() has returned for the file visit in progress
CreateReturned == InVisit /\ thrown # "EACCES"

\* the store the sidecar content on disk stands for: the rcPath file when it
\* applies, else the nearest .nextpublicrc from the working directory up to,
\* not including, the root directory, else the empty store
SidecarStore ==
    IF ExplicitApplies THEN StoreOf(Resolve(cwd, rcPath.rel))
    ELSE LET below == Holders(cwd) \ {Root}
         IN  IF below = {} THEN EmptyStore
             ELSE StoreOf(RcFile(CHOOSE h \in below :
                                     \A g \in below : Len(g) <= Len(h)))

\* C12: in any sequence of file visits in one process, the store of a visit
\* is the one the sidecar content on disk at its create() stands for, and the
\* diagnostics of the visit are those of its file against that store, whatever
\* earlier visits read.
C12_ReadAfreshEachVisit ==
    /\ CreateReturned => justifications = SidecarStore
    /\ TraversalComplete => reports = Lint(ast, SidecarStore).reports

\* C12 witness: a file is visited for the second time in a row, the sidecar
\* file was edited in between, and the second visit ends with other
\* diagnostics than the first.
C12_Witness ==
    /\ TraversalComplete
    /\ history # <<>>
    /\ history[Len(history)].ast = ast
    /\ history[Len(history)].cwd = cwd
    /\ history[Len(history)].disk # disk
    /\ history[Len(history)].reports # reports

\* the finished visit h had the source file, working directory, option and
\* disk of the visit in progress
SameInputs(h) ==
    /\ h.ast = ast
    /\ h.cwd = cwd
    /\ h.rcPath = rcPath
    /\ h.disk = disk

\* C13: two visits of one process with the same source file and the same
\* sidecar files end with the same diagnostics (messages, nodes, order),
\* whatever was visited in between and whatever the process-wide set holds.
C13_SameInputsSameDiagnostics ==
    /\ TraversalComplete =>
          \A i \in 1..Len(history) :
              SameInputs(history[i]) => history[i].reports = reports
    /\ \A i, j \in 1..Len(history) :
          /\ history[i].ast = history[j].ast
          /\ history[i].cwd = history[j].cwd
          /\ history[i].rcPath = history[j].rcPath
          /\ history[i].disk = history[j].disk
          => history[i].reports = history[j].reports

\* C13 witness: a file that was visited to the end before is visited again
\* with the disk unchanged, ends with diagnostics, and the process-wide set
\* already holds the name it reports.
C13_Witness ==
    /\ TraversalComplete
    /\ reports # <<>>
    /\ \E i \in 1..Len(history) : SameInputs(history[i])
    /\ \E i \in 1..Len(reports) :
          reports[i].variable \in globalState.allFoundVariables

\* a create() of this process has returned
SomeCreateReturned == history # <<>> \/ (ast # <<>> /\ thrown # "EACCES")

\* the names detected in the files whose traversal reached Program:exit
DetectedNames == UNION {history[i].found : i \in 1..Len(history)}

\* the total lines on the console
TotalLines ==
    {i \in 1..Len(console) : console[i].line = TotalLine(0).line}

\* one total line is printed and it counts the detected names
OneTotalOfDetected ==
    /\ Cardinality(TotalLines) = 1
    /\ \A i \in TotalLines : console[i] = TotalLine(Cardinality(DetectedNames))

\* C14 as stated: once a create() has returned, in any process, exactly one
\* exit handler is registered, and at process exit exactly one total line is
\* printed, counting the distinct names of the files that reached Program:exit.
C14_OneHandlerAsStated ==
    /\ SomeCreateReturned => exitListeners = 1
    /\ pc = "exited" /\ SomeCreateReturned => OneTotalOfDetected

\* C14: the same in a process where global.eslintPluginNextPublic was not set
\* before the first create(), that is, outside the test file's setup.
C14_OneHandlerOneTotal ==
    /\ harness = "none" /\ SomeCreateReturned => exitListeners = 1
    /\ harness = "none" /\ pc = "exited" /\ SomeCreateReturned
          => OneTotalOfDetected

\* C14 witness: the process exits after two files reached Program:exit that
\* held two distinct names between them, and the total line says 2.
C14_Witness ==
    /\ pc = "exited"
    /\ harness = "none"
    /\ Len(history) = 2
    /\ Cardinality(DetectedNames) = 2
    /\ \E i \in 1..Len(console) : console[i] = TotalLine(2)

====
